---------------------------- MODULE Spec2Model ----------------------------
(***************************************************************************)
(* Merkle Binary Tree (MBT) of hashBaseStructs/merkle_tree.py.             *)
(*                                                                         *)
(* Two containers, "source" and "destination", each holding the fields of  *)
(* MerkleTree: leaves (the sorted leaf vector), levels (the array of       *)
(* levels, levels[0] first) and leaves_count.  Python lists are 0-based;   *)
(* the sequences below are 1-based, so list index i is sequence index      *)
(* i + 1.  Indices and MerkleNodePlaceInfo keep the 0-based values of the  *)
(* source.                                                                 *)
(*                                                                         *)
(* The hash function is modelled as collision free: a digest is a term,    *)
(* <<v>> for H(str(v)) of a leaf value and <<l, r>> for H(l + r) of two    *)
(* digests, so two digests are equal exactly when they were computed from  *)
(* the same inputs in the same shape.                                      *)
(***************************************************************************)
EXTENDS Integers, Sequences, FiniteSets, TLC

\* Bounds of the model.
MaxKey == 3
MaxValue == 2
MaxBulk == 2
MaxLevels == 2
MaxGridSize == 3

Keys == 1..MaxKey
Values == 1..MaxValue
Names == {"source", "destination"}

VARIABLES trees, call, grids

vars == <<trees, call, grids>>

----------------------------------------------------------------------------
\* Data classes

MerkleTreeNode(hsh, size, max_key, min_key, avg, max_left_child) ==
    [hash |-> hsh, size |-> size, max_key |-> max_key, min_key |-> min_key,
     max_left_child |-> max_left_child, avg |-> avg]

MerkleTreeLeaf(key, value) == [key |-> key, value |-> value]

MerkleNodePlaceInfo(level_index, item_index) ==
    [level_index |-> level_index, item_index |-> item_index]

\* Python's None, for an Optional[MerkleNodePlaceInfo].
None == MerkleNodePlaceInfo(-1, -1)

left_children(info) == MerkleNodePlaceInfo(info.level_index + 1, info.item_index * 2)

right_children(info) == MerkleNodePlaceInfo(info.level_index + 1, info.item_index * 2 + 1)

\* The hsh argument of MerkleTree.__init__: the name of a hash function, or
\* a callable.  Both stand for the one hash H of the model.
Callable == "callable"

HashArgs == {"sha256", Callable}

\* The attribute hash_function of a container built with a callable: the
\* callable is bound to _get_hash and hash_function is never assigned.
Unset == "unset"

\* MerkleTree.__init__: the fields of an empty container.
MerkleTree(hsh) ==
    [levels |-> <<>>, leaves |-> <<>>, leaves_count |-> 0,
     hash_function |-> IF hsh = Callable THEN Unset ELSE hsh]

\* MerkleTree(), built with the default hsh = 'sha256'.
EmptyTree == MerkleTree("sha256")

\* clear without the reset of levels.
clear_keep_levels(self) == [self EXCEPT !.leaves = <<>>, !.leaves_count = 0]

\* clear: levels, leaves and leaves_count reset; hash_function stays.
clear(self) == [self EXCEPT !.levels = <<>>, !.leaves = <<>>, !.leaves_count = 0]

----------------------------------------------------------------------------
\* Hashing

\* _get_hash applied to a leaf value: H(str(value).encode()).
get_hash(value) == <<value>>

\* _get_hash applied to left.hash + right.hash, two digests of fixed size.
get_hash_concat(left_hash, right_hash) == <<left_hash, right_hash>>

----------------------------------------------------------------------------
\* list.insert, list.pop and item assignment of Python, at a 0-based index.

\* list.insert taken for list.append: the element goes to the end.
list_insert_append(lst, index, x) == Append(lst, x)

list_insert(lst, index, x) ==
    [i \in 1..(Len(lst) + 1) |->
        IF i <= index THEN lst[i] ELSE IF i = index + 1 THEN x ELSE lst[i - 1]]

\* list.pop(index) taken for list.pop(): the last element is removed.
list_pop_last(lst, index) == SubSeq(lst, 1, Len(lst) - 1)

list_pop(lst, index) ==
    [i \in 1..(Len(lst) - 1) |-> IF i <= index THEN lst[i] ELSE lst[i + 1]]

----------------------------------------------------------------------------
\* _find_position: the binary search over self.leaves.

RECURSIVE find_position_loop(_, _, _, _, _)
find_position_loop(leaves, key, min_index, max_index, mid_index) ==
    IF max_index >= min_index
    THEN IF leaves[mid_index + 1].key = key
         THEN mid_index
         ELSE IF leaves[mid_index + 1].key < key
              THEN find_position_loop(leaves, key, mid_index + 1, max_index,
                                      (max_index + mid_index + 1) \div 2)
              ELSE find_position_loop(leaves, key, min_index, mid_index - 1,
                                      (mid_index - 1 + min_index) \div 2)
    ELSE IF mid_index = -1 THEN 0 ELSE mid_index

\* The search returning, for a key that is not held, the number of leaves
\* with a smaller key.
find_position_insertion(self, key) ==
    IF \E i \in 1..Len(self.leaves) : self.leaves[i].key = key
    THEN find_position_loop(self.leaves, key, 0, Len(self.leaves) - 1,
                            (Len(self.leaves) - 1 + 0) \div 2)
    ELSE Cardinality({i \in 1..Len(self.leaves) : self.leaves[i].key < key})

find_position(self, key) ==
    find_position_loop(self.leaves, key, 0, Len(self.leaves) - 1,
                       (Len(self.leaves) - 1 + 0) \div 2)

----------------------------------------------------------------------------
\* _calculate_next_level and _build

\* The pair-fold of prev_level: one parent per pair, and the unpaired
\* trailing node copied.
new_level(prev_level) ==
    [j \in 1..((Len(prev_level) + 1) \div 2) |->
        IF 2 * j <= Len(prev_level)
        THEN LET left == prev_level[2 * j - 1]
                 right == prev_level[2 * j]
             IN  MerkleTreeNode(get_hash_concat(left.hash, right.hash),
                                left.size + right.size,
                                right.max_key, left.min_key,
                                (left.avg + right.avg + 1) \div 2,
                                left.max_key)
        ELSE LET last_element == prev_level[Len(prev_level)]
             IN  MerkleTreeNode(last_element.hash, last_element.size,
                                last_element.max_key, last_element.min_key,
                                last_element.avg, last_element.max_left_child)]

calculate_next_level(levels, prev_level) == <<new_level(prev_level)>> \o levels

\* The node _build makes of one leaf.
leaf_node(leaf) ==
    MerkleTreeNode(get_hash(leaf.value), 1, leaf.key, leaf.key, leaf.key, leaf.key)

first_level(leaves) == [i \in 1..Len(leaves) |-> leaf_node(leaves[i])]

\* while len(self.levels[0]) > 1: self._calculate_next_level(self.levels[0])
RECURSIVE build_loop(_)
build_loop(levels) ==
    IF Len(levels[1]) > 1
    THEN build_loop(calculate_next_level(levels, levels[1]))
    ELSE levels

\* _build appends the new leaf level to self.levels as they are.
build(self) ==
    [self EXCEPT !.levels = build_loop(Append(self.levels, first_level(self.leaves)))]

----------------------------------------------------------------------------
\* _setitem

\* _setitem with the last branch inserting at index instead of index + 1.
setitem_insert_before(self, key, value, is_build) ==
    LET index == find_position(self, key)
        stored ==
            IF index >= Len(self.leaves) \/ self.leaves[index + 1].key > key
            THEN [self EXCEPT !.leaves = list_insert(self.leaves, index,
                                                     MerkleTreeLeaf(key, value)),
                              !.leaves_count = self.leaves_count + 1]
            ELSE IF key = self.leaves[index + 1].key
                 THEN [self EXCEPT !.leaves[index + 1].value = value]
                 ELSE [self EXCEPT !.leaves = list_insert(self.leaves, index,
                                                          MerkleTreeLeaf(key, value)),
                                   !.leaves_count = self.leaves_count + 1]
    IN  IF is_build THEN build(stored) ELSE stored

\* _setitem without the branch that overwrites the value of a stored key.
setitem_no_overwrite(self, key, value, is_build) ==
    LET index == find_position(self, key)
        stored ==
            IF index >= Len(self.leaves) \/ self.leaves[index + 1].key > key
            THEN [self EXCEPT !.leaves = list_insert(self.leaves, index,
                                                     MerkleTreeLeaf(key, value)),
                              !.leaves_count = self.leaves_count + 1]
            ELSE [self EXCEPT !.leaves = list_insert(self.leaves, index + 1,
                                                     MerkleTreeLeaf(key, value)),
                              !.leaves_count = self.leaves_count + 1]
    IN  IF is_build THEN build(stored) ELSE stored

setitem(self, key, value, is_build) ==
    LET index == find_position(self, key)
        stored ==
            IF index >= Len(self.leaves) \/ self.leaves[index + 1].key > key
            THEN [self EXCEPT !.leaves = list_insert(self.leaves, index,
                                                     MerkleTreeLeaf(key, value)),
                              !.leaves_count = self.leaves_count + 1]
            ELSE IF key = self.leaves[index + 1].key
                 THEN [self EXCEPT !.leaves[index + 1].value = value]
                 ELSE [self EXCEPT !.leaves = list_insert(self.leaves, index + 1,
                                                          MerkleTreeLeaf(key, value)),
                                   !.leaves_count = self.leaves_count + 1]
    IN  IF is_build THEN build(stored) ELSE stored


----------------------------------------------------------------------------
\* Node and leaf lookup by address

\* Python's None, for an Optional[MerkleTreeNode] and an Optional[MerkleTreeLeaf].
\* No node has the empty digest and no leaf has key 0.
NoneNode == MerkleTreeNode(<<>>, 0, 0, 0, 0, 0)

NoneLeaf == MerkleTreeLeaf(0, 0)

\* The test that takes the level after the last one for the last.
is_last_below(self, info) == Len(self.levels) = info.level_index

is_last(self, info) == Len(self.levels) - 1 = info.level_index

get_node_from_info(self, info) ==
    IF \/ info.level_index >= Len(self.levels)
       \/ info.item_index >= Len(self.levels[info.level_index + 1])
    THEN NoneNode
    ELSE self.levels[info.level_index + 1][info.item_index + 1]

get_leaf_from_info(self, info) ==
    IF info.item_index < Len(self.leaves)
    THEN self.leaves[info.item_index + 1]
    ELSE NoneLeaf

----------------------------------------------------------------------------
\* Change records

Create(leaf) == [Operation_type |-> "Create", Key |-> leaf.key, Value |-> leaf.value]

Delete(leaf) == [Operation_type |-> "Delete", Key |-> leaf.key, Value |-> leaf.value]

\* The Update record with the two values taken the other way round.
Update_reversed(source_leaf, destination_leaf) ==
    [Operation_type |-> "Update", Key |-> source_leaf.key,
     Source_value |-> destination_leaf.value, Destination_value |-> source_leaf.value]

Update(source_leaf, destination_leaf) ==
    [Operation_type |-> "Update", Key |-> source_leaf.key,
     Source_value |-> source_leaf.value,
     Destination_value |-> destination_leaf.value]

----------------------------------------------------------------------------
\* _get_changeset: the recursive walk over the two trees.

RECURSIVE get_changeset_walk(_, _, _, _)
get_changeset_walk(self, destination, source_info, destination_info) ==
    LET walk(s, d) == get_changeset_walk(self, destination, s, d)
        source_node == get_node_from_info(self, source_info)
        destination_node == get_node_from_info(destination, destination_info)
        source_leaf ==
            IF is_last(self, source_info)
            THEN get_leaf_from_info(self, source_info) ELSE NoneLeaf
        destination_leaf ==
            IF is_last(destination, destination_info)
            THEN get_leaf_from_info(destination, destination_info) ELSE NoneLeaf
        source_left_subtree == left_children(source_info)
        source_right_subtree == right_children(source_info)
        destination_left_subtree == left_children(destination_info)
        destination_right_subtree == right_children(destination_info)
        \* lines 295-331: the equal-avg rule and the fallback
        avg_or_fallback ==
            IF source_node.avg = destination_node.avg
            THEN walk(source_left_subtree, destination_left_subtree)
                 \o walk(source_right_subtree, destination_right_subtree)
            ELSE IF source_node.size < destination_node.size
                 THEN walk(source_left_subtree, destination_info)
                      \o walk(source_right_subtree, destination_info)
                 ELSE walk(source_info, destination_left_subtree)
                      \o walk(source_info, destination_right_subtree)
    IN
    IF source_info = None
    THEN IF is_last(destination, destination_info)
         THEN IF get_leaf_from_info(destination, destination_info) = NoneLeaf
              THEN <<>>
              ELSE <<Create(get_leaf_from_info(destination, destination_info))>>
         ELSE walk(None, destination_left_subtree)
              \o walk(None, destination_right_subtree)
    ELSE IF destination_info = None
    THEN IF is_last(self, source_info)
         THEN IF get_leaf_from_info(self, source_info) = NoneLeaf
              THEN <<>>
              ELSE <<Delete(get_leaf_from_info(self, source_info))>>
         ELSE walk(source_left_subtree, None)
              \o walk(source_right_subtree, None)
    ELSE IF destination_node = NoneNode /\ source_node = NoneNode
    THEN <<>>
    ELSE IF destination_node = NoneNode
    THEN walk(source_info, None)
    ELSE IF source_node = NoneNode
    THEN walk(None, destination_info)
    ELSE IF source_node.hash = destination_node.hash
    THEN <<>>
    ELSE IF source_leaf # NoneLeaf /\ destination_leaf # NoneLeaf
    THEN IF source_leaf.key = destination_leaf.key
         THEN <<Update(source_leaf, destination_leaf)>>
         ELSE <<Delete(source_leaf)>> \o <<Create(destination_leaf)>>
    ELSE IF source_leaf # NoneLeaf
    THEN IF source_leaf.key <= destination_node.max_left_child
         THEN walk(source_info, destination_left_subtree)
         ELSE walk(source_info, destination_right_subtree)
    ELSE IF destination_leaf # NoneLeaf
    THEN IF destination_leaf.key <= source_node.max_left_child
         THEN walk(source_left_subtree, destination_info)
         ELSE walk(source_right_subtree, destination_info)
    ELSE IF source_node.size < destination_node.size
    THEN IF destination_node.max_left_child < source_node.min_key
         THEN walk(None, destination_left_subtree)
              \o walk(source_info, destination_right_subtree)
         ELSE IF destination_node.max_left_child >= source_node.max_key
              THEN walk(source_info, destination_left_subtree)
                   \o walk(None, destination_right_subtree)
              ELSE avg_or_fallback
    ELSE IF source_node.size > destination_node.size
    THEN IF source_node.max_left_child < destination_node.min_key
         THEN walk(source_left_subtree, None)
              \o walk(source_right_subtree, destination_info)
         ELSE IF source_node.max_left_child >= destination_node.max_key
              THEN walk(source_left_subtree, destination_info)
                   \o walk(source_right_subtree, None)
              ELSE avg_or_fallback
    ELSE avg_or_fallback

\* get_changeset: the walk from the two roots.
get_changeset(self, destination) ==
    get_changeset_walk(self, destination,
                       MerkleNodePlaceInfo(0, 0), MerkleNodePlaceInfo(0, 0))

\* The recursive calls one call of _get_changeset makes: the pairs
\* <<source_info, destination_info>> of their arguments, in the order of the
\* calls.
walk_calls(self, destination, source_info, destination_info) ==
    LET source_node == get_node_from_info(self, source_info)
        destination_node == get_node_from_info(destination, destination_info)
        source_leaf ==
            IF is_last(self, source_info)
            THEN get_leaf_from_info(self, source_info) ELSE NoneLeaf
        destination_leaf ==
            IF is_last(destination, destination_info)
            THEN get_leaf_from_info(destination, destination_info) ELSE NoneLeaf
        source_left_subtree == left_children(source_info)
        source_right_subtree == right_children(source_info)
        destination_left_subtree == left_children(destination_info)
        destination_right_subtree == right_children(destination_info)
        \* lines 295-331: the equal-avg rule and the fallback
        avg_or_fallback ==
            IF source_node.avg = destination_node.avg
            THEN <<<<source_left_subtree, destination_left_subtree>>,
                   <<source_right_subtree, destination_right_subtree>>>>
            ELSE IF source_node.size < destination_node.size
                 THEN <<<<source_left_subtree, destination_info>>,
                        <<source_right_subtree, destination_info>>>>
                 ELSE <<<<source_info, destination_left_subtree>>,
                        <<source_info, destination_right_subtree>>>>
    IN
    IF source_info = None
    THEN IF is_last(destination, destination_info)
         THEN <<>>
         ELSE <<<<None, destination_left_subtree>>, <<None, destination_right_subtree>>>>
    ELSE IF destination_info = None
    THEN IF is_last(self, source_info)
         THEN <<>>
         ELSE <<<<source_left_subtree, None>>, <<source_right_subtree, None>>>>
    ELSE IF destination_node = NoneNode /\ source_node = NoneNode
    THEN <<>>
    ELSE IF destination_node = NoneNode
    THEN <<<<source_info, None>>>>
    ELSE IF source_node = NoneNode
    THEN <<<<None, destination_info>>>>
    ELSE IF source_node.hash = destination_node.hash
    THEN <<>>
    ELSE IF source_leaf # NoneLeaf /\ destination_leaf # NoneLeaf
    THEN <<>>
    ELSE IF source_leaf # NoneLeaf
    THEN IF source_leaf.key <= destination_node.max_left_child
         THEN <<<<source_info, destination_left_subtree>>>>
         ELSE <<<<source_info, destination_right_subtree>>>>
    ELSE IF destination_leaf # NoneLeaf
    THEN IF destination_leaf.key <= source_node.max_left_child
         THEN <<<<source_left_subtree, destination_info>>>>
         ELSE <<<<source_right_subtree, destination_info>>>>
    ELSE IF source_node.size < destination_node.size
    THEN IF destination_node.max_left_child < source_node.min_key
         THEN <<<<None, destination_left_subtree>>, <<source_info, destination_right_subtree>>>>
         ELSE IF destination_node.max_left_child >= source_node.max_key
              THEN <<<<source_info, destination_left_subtree>>,
                     <<None, destination_right_subtree>>>>
              ELSE avg_or_fallback
    ELSE IF source_node.size > destination_node.size
    THEN IF source_node.max_left_child < destination_node.min_key
         THEN <<<<source_left_subtree, None>>, <<source_right_subtree, destination_info>>>>
         ELSE IF source_node.max_left_child >= destination_node.max_key
              THEN <<<<source_left_subtree, destination_info>>,
                     <<source_right_subtree, None>>>>
              ELSE avg_or_fallback
    ELSE avg_or_fallback

\* The calls of _get_changeset under one call, that call included, each with
\* its arguments and the number of calls above it.  A call deeper than the
\* levels of the two containers together is recorded and not followed.
RECURSIVE walk_trace(_, _, _, _, _)
walk_trace(self, destination, source_info, destination_info, depth) ==
    LET calls == walk_calls(self, destination, source_info, destination_info)
    IN  {[source_info |-> source_info, destination_info |-> destination_info,
          depth |-> depth]}
        \cup IF depth > Len(self.levels) + Len(destination.levels)
             THEN {}
             ELSE UNION {walk_trace(self, destination, calls[n][1], calls[n][2], depth + 1) :
                            n \in 1..Len(calls)}

----------------------------------------------------------------------------
\* Results of the public calls: what a call returns, or the exception it
\* raises ("IndexError" of a list index out of range, "Exception" of
\* raise Exception("No such element")).

Returned(value) == [raised |-> "", value |-> value]

Raised(exception) == [raised |-> exception, value |-> <<>>]

\* The property root_hash: self.levels[0][0].hash.
root_hash(self) ==
    IF Len(self.levels) = 0 \/ Len(self.levels[1]) = 0
    THEN Raised("IndexError")
    ELSE Returned(self.levels[1][1].hash)

\* The property size, and __len__.
size(self) == self.leaves_count

\* get and __getitem__.
get(self, key) ==
    LET index == find_position(self, key)
    IN  IF index >= Len(self.leaves)
        THEN Raised("IndexError")
        ELSE IF self.leaves[index + 1].key = key
             THEN Returned(<<self.leaves[index + 1].value>>)
             ELSE Raised("Exception")

\* delete and __delitem__: the container after the call, unchanged when the
\* call raises.
delete_raises(self, key) ==
    LET index == find_position(self, key)
    IN  IF index >= Len(self.leaves)
        THEN "IndexError"
        ELSE IF self.leaves[index + 1].key = key THEN "" ELSE "Exception"

delete(self, key) ==
    LET index == find_position(self, key)
    IN  IF delete_raises(self, key) = ""
        THEN build([self EXCEPT !.leaves = list_pop(self.leaves, index),
                                !.leaves_count = self.leaves_count - 1])
        ELSE self

\* set and __setitem__.
set(self, key, value) == setitem(self, key, value, TRUE)

\* zip(keys, values).
zip(keys, values) ==
    [i \in 1..(IF Len(keys) < Len(values) THEN Len(keys) ELSE Len(values)) |->
        <<keys[i], values[i]>>]

\* for key, value in items: self._setitem(key, value, is_build=False)
RECURSIVE setitem_each(_, _)
setitem_each(self, items) ==
    IF items = <<>>
    THEN self
    ELSE setitem_each(setitem(self, Head(items)[1], Head(items)[2], FALSE), Tail(items))

add_iter(self, keys, values) == build(setitem_each(self, zip(keys, values)))

\* add_dict: dct is given by its keys, in the order they iterate in, and the
\* value dct[key] of each.
add_dict(self, dct_keys, dct_values) ==
    build(setitem_each(self, [i \in 1..Len(dct_keys) |-> <<dct_keys[i], dct_values[i]>>]))

\* get_by_order: the record {'key', 'value'} of self.leaves[order]; a
\* negative order counts from the end, as a list index does.
get_by_order(self, order) ==
    IF order >= Len(self.leaves) \/ order < 0 - Len(self.leaves)
    THEN Raised("IndexError")
    ELSE LET leaf == self.leaves[(order % Len(self.leaves)) + 1]
         IN  Returned([key |-> leaf.key, value |-> leaf.value])

\* __iter__: the records the generator yields, in the order it yields them.
iter(self) ==
    [i \in 1..Len(self.leaves) |->
        [key |-> self.leaves[i].key, value |-> self.leaves[i].value]]

\* __contains__.
contains(self, key) ==
    LET index == find_position(self, key)
    IN  index < Len(self.leaves) /\ self.leaves[index + 1].key = key

\* type(o) is MerkleTree: an object is the record of its fields.
type_is_MerkleTree(o) == DOMAIN o = DOMAIN EmptyTree

\* __eq__: self.levels[0][0].hash == o.levels[0][0].hash for a MerkleTree,
\* False for an object of another type.
eq(self, o) ==
    IF type_is_MerkleTree(o)
    THEN IF root_hash(self).raised # "" \/ root_hash(o).raised # ""
         THEN Raised("IndexError")
         ELSE Returned(self.levels[1][1].hash = o.levels[1][1].hash)
    ELSE Returned(FALSE)

\* __ne__: not self.__eq__(o).
ne(self, o) ==
    IF eq(self, o).raised # "" THEN eq(self, o) ELSE Returned(~eq(self, o).value)

----------------------------------------------------------------------------
\* Merkle Hash Grid (MHG) of hashBaseStructs/merkle_hash_grid.py: the fields
\* of a MerkleHashGrid as constructed.  b'' is the empty sequence.
EmptyGrid ==
    [nodes |-> <<>>, row_tree |-> <<>>, column_tree |-> <<>>,
     grid_side |-> 0, grid_size |-> 0, master_hash |-> <<>>]

\* MerkleNode and GridNode.
MerkleNode(hsh) == [hsh |-> hsh]

GridNode(key, value, hsh) == [hsh |-> hsh, key |-> key, value |-> value]

\* MerkleHashGrid._get_hash, collision free: the digest of a stored value,
\* and the digest of a byte string, which is a concatenation of digests and
\* is kept as their sequence.
grid_get_hash(value) == [digest_of_value |-> value]

grid_get_hash_bytes(bytes) == [digest_of_bytes |-> bytes]

\* What a call on a grid leaves behind: the grid, and the exception the
\* call raised ("" when it returned).  "nontermination" is a call that
\* never returns: its loop adds a level each time round.
Outcome(self, raised) == [self |-> self, raised |-> raised]

\* clear.
grid_clear(self) == EmptyGrid

\* ceil(sqrt(n)).
ceil_sqrt(n) == CHOOSE r \in 0..n : r * r >= n /\ (r = 0 \/ (r - 1) * (r - 1) < n)

\* list(range(start, stop, step)) for a step above 0.
range(start, stop, step) ==
    [i \in 1..(IF stop > start THEN (stop - start + step - 1) \div step ELSE 0)
        |-> start + (i - 1) * step]

\* _find_position, over self.nodes.
grid_find_position(self, key) ==
    find_position_loop(self.nodes, key, 0, Len(self.nodes) - 1,
                       (Len(self.nodes) - 1 + 0) \div 2)

\* _calculate_next_level.
grid_calculate_next_level(prev_level) ==
    [j \in 1..((Len(prev_level) + 1) \div 2) |->
        IF 2 * j <= Len(prev_level)
        THEN MerkleNode(grid_get_hash_bytes(<<prev_level[2 * j - 1].hsh,
                                              prev_level[2 * j].hsh>>))
        ELSE MerkleNode(prev_level[Len(prev_level)].hsh)]

\* The digests a row, or a column, adds up: those of nodes[i + j] for the j
\* of the inner loop, up to the first i + j that is no index of nodes.
hsh_sum(self, i, js) ==
    LET taken == {n \in 1..Len(js) : \A m \in 1..n : i + js[m] < Len(self.nodes)}
    IN  [n \in 1..Cardinality(taken) |-> self.nodes[i + js[n] + 1].hsh]

\* while len(self.row_tree[0]) > 1: a level is put in front.
RECURSIVE row_tree_loop(_)
row_tree_loop(row_tree) ==
    IF Len(row_tree[1]) > 1
    THEN row_tree_loop(<<grid_calculate_next_level(row_tree[1])>> \o row_tree)
    ELSE row_tree

\* _build_row_tree for a list of indexes.
grid_build_row_tree(self, index) ==
    LET first_row_level ==
            [n \in 1..Len(index) |->
                MerkleNode(grid_get_hash_bytes(
                    hsh_sum(self, index[n], range(0, self.grid_side, 1))))]
    IN  [self EXCEPT !.row_tree = row_tree_loop(Append(self.row_tree, first_row_level))]

\* _build_column_tree for a list of indexes, up to its loop
\* while len(self.column_tree) > 1, which tests the number of levels: it is
\* not entered when the level appended is the only one, and never left
\* otherwise.
grid_build_column_tree(self, index) ==
    LET first_column_level ==
            [n \in 1..Len(index) |->
                MerkleNode(grid_get_hash_bytes(
                    hsh_sum(self, index[n], range(0, self.grid_size, self.grid_side))))]
        appended == [self EXCEPT !.column_tree = Append(self.column_tree, first_column_level)]
    IN  Outcome(appended,
                IF Len(appended.column_tree) > 1 THEN "nontermination" ELSE "")

\* The last statement of _build: self.row_tree[0][0] + self.column_tree[0][0]
\* adds two MerkleNode objects, which raises TypeError, once both were read.
grid_master_hash(self) ==
    IF Len(self.row_tree[1]) = 0 \/ Len(self.column_tree[1]) = 0
    THEN Outcome(self, "IndexError")
    ELSE Outcome(self, "TypeError")

\* _build.
grid_build(self, indexes) ==
    LET new_grid_side == ceil_sqrt(self.grid_size)
        sided == [self EXCEPT !.grid_side = new_grid_side]
        min_index == CHOOSE m \in {indexes[n] : n \in 1..Len(indexes)} :
                         \A n \in 1..Len(indexes) : m <= indexes[n]
        start_index == min_index - (min_index % new_grid_side)
    IN  IF new_grid_side # self.grid_side
        THEN LET column == grid_build_column_tree(sided, range(0, new_grid_side, 1))
             IN  IF column.raised # "" THEN column
                 ELSE grid_master_hash(
                          grid_build_row_tree(column.self,
                              range(0, sided.grid_size, sided.grid_side)))
        ELSE IF \A n \in 1..Len(indexes) :
                    new_grid_side * new_grid_side - new_grid_side >= indexes[n]
             THEN \* _build_row_tree is given an int: for i in index raises.
                  Outcome(self, "TypeError")
             ELSE LET column == grid_build_column_tree(self, range(0, self.grid_side, 1))
                  IN  IF column.raised # "" THEN column
                      ELSE grid_master_hash(
                               grid_build_row_tree(column.self,
                                   range(start_index, self.grid_size, new_grid_side)))

\* _setitem without its build: the grid, and the index it returns.
grid_setitem(self, key, value) ==
    LET index == grid_find_position(self, key)
        node == GridNode(key, value, grid_get_hash(value))
    IN  [index |-> index,
         self |->
            IF index >= Len(self.nodes) \/ self.nodes[index + 1].key > key
            THEN [self EXCEPT !.nodes = list_insert(self.nodes, index, node),
                              !.grid_size = self.grid_size + 1]
            ELSE IF key = self.nodes[index + 1].key
                 THEN [self EXCEPT !.nodes[index + 1].value = value]
                 ELSE [self EXCEPT !.nodes = list_insert(self.nodes, index + 1, node),
                                   !.grid_size = self.grid_size + 1]]

\* set and __setitem__.
grid_set(self, key, value) ==
    grid_build(grid_setitem(self, key, value).self,
               <<grid_setitem(self, key, value).index>>)

\* The for loop of add_iter and add_dict: the grid and the indexes collected.
RECURSIVE grid_setitem_each(_, _, _)
grid_setitem_each(self, items, indexes) ==
    IF items = <<>> THEN [self |-> self, indexes |-> indexes]
    ELSE LET stored == grid_setitem(self, Head(items)[1], Head(items)[2])
         IN  grid_setitem_each(stored.self, Tail(items), Append(indexes, stored.index))

\* add_iter, and add_dict for a dictionary that iterates in the order given.
grid_add_iter(self, keys, values) ==
    LET stored == grid_setitem_each(self, zip(keys, values), <<>>)
    IN  grid_build(stored.self, stored.indexes)

grid_add_dict(self, dct_keys, dct_values) ==
    LET stored == grid_setitem_each(self,
                      [i \in 1..Len(dct_keys) |-> <<dct_keys[i], dct_values[i]>>], <<>>)
    IN  grid_build(stored.self, stored.indexes)

\* delete and __delitem__: after the pop, self.nodes -= 1 subtracts an int
\* from a list and raises TypeError; grid_size is not decremented and
\* _build is not reached.
grid_delete(self, key) ==
    LET index == grid_find_position(self, key)
    IN  IF index >= Len(self.nodes) THEN Outcome(self, "IndexError")
        ELSE IF self.nodes[index + 1].key = key
             THEN Outcome([self EXCEPT !.nodes = list_pop(self.nodes, index)], "TypeError")
             ELSE Outcome(self, "Exception")

----------------------------------------------------------------------------
\* MerkleHashGrid.get_changeset.  A MerkleNodePlaceInfo of the grid holds its
\* tree besides the two indexes; here the tree is passed along with it.

\* MerkleNodePlaceInfo.get_node: None is NoGridNode.
NoGridNode == MerkleNode(<<>>)

grid_get_node(tree, info) ==
    IF info.level_index >= Len(tree) THEN NoGridNode
    ELSE IF info.item_index >= Len(tree[info.level_index + 1]) THEN NoGridNode
    ELSE tree[info.level_index + 1][info.item_index + 1]

\* MerkleNodePlaceInfo.is_last and size.
grid_is_last(tree, info) == info.level_index = Len(tree) - 1

grid_info_size(tree) == Len(tree[Len(tree)])

\* _find_inconsistencies.
RECURSIVE find_inconsistencies(_, _, _, _)
find_inconsistencies(source_tree, destination_tree, source_info, destination_info) ==
    LET source_node == grid_get_node(source_tree, source_info)
        destination_node == grid_get_node(destination_tree, destination_info)
    IN  IF \/ source_node = NoGridNode
           \/ destination_node = NoGridNode
           \/ source_node.hsh = destination_node.hsh
        THEN <<>>
        ELSE IF /\ grid_is_last(source_tree, source_info)
                /\ grid_is_last(destination_tree, destination_info)
        THEN IF grid_info_size(source_tree) > grid_info_size(destination_tree)
             THEN <<source_info.item_index>>
             ELSE <<destination_info.item_index>>
        ELSE IF grid_is_last(source_tree, source_info)
        THEN find_inconsistencies(source_tree, destination_tree, source_info,
                                  left_children(destination_info))
             \o find_inconsistencies(source_tree, destination_tree, source_info,
                                     right_children(destination_info))
        ELSE IF grid_is_last(destination_tree, destination_info)
        THEN find_inconsistencies(source_tree, destination_tree,
                                  left_children(source_info), destination_info)
             \o find_inconsistencies(source_tree, destination_tree,
                                     right_children(source_info), destination_info)
        ELSE find_inconsistencies(source_tree, destination_tree,
                                  left_children(source_info),
                                  left_children(destination_info))
             \o find_inconsistencies(source_tree, destination_tree,
                                     right_children(source_info),
                                     right_children(destination_info))

\* _format_change: None is NoGridLeaf.
NoGridLeaf == GridNode(0, 0, <<>>)

format_change(source, destination) ==
    IF source = NoGridLeaf THEN <<Create(destination)>>
    ELSE IF destination = NoGridLeaf THEN <<Delete(source)>>
    ELSE IF source.hsh # destination.hsh THEN <<Update(source, destination)>>
    ELSE <<>>

\* source_dict and destination_dict: the nodes in the order of insertion of
\* their keys.
dict_has(dict, key) == \E n \in 1..Len(dict) : dict[n].key = key

dict_get(dict, key) == dict[CHOOSE n \in 1..Len(dict) : dict[n].key = key]

dict_pop(dict, key) == SelectSeq(dict, LAMBDA node : node.key # key)

dict_set(dict, node) ==
    IF dict_has(dict, node.key)
    THEN [n \in 1..Len(dict) |-> IF dict[n].key = node.key THEN node ELSE dict[n]]
    ELSE Append(dict, node)

\* row * self.grid_side + column for the rows and the columns, in the order
\* of the two nested for loops.
grid_indexes(self, row_indexes, column_indexes) ==
    [n \in 1..(Len(row_indexes) * Len(column_indexes)) |->
        row_indexes[((n - 1) \div Len(column_indexes)) + 1] * self.grid_side
            + column_indexes[((n - 1) % Len(column_indexes)) + 1]]

\* One pass of the inner for loop.  destination_node is read when index is
\* no index of self.nodes, source_node when it is no index of
\* destination.nodes; a read past the end of the other list raises
\* IndexError.
changeset_step(self, destination, index, acc) ==
    LET read_destination == index >= Len(self.nodes)
        read_source == index >= Len(destination.nodes)
        destination_node == IF read_destination THEN destination.nodes[index + 1]
                            ELSE NoGridLeaf
        source_node == IF read_source THEN self.nodes[index + 1] ELSE NoGridLeaf
        after_destination ==
            IF ~read_destination THEN acc
            ELSE IF dict_has(acc.source_dict, destination_node.key)
            THEN [acc EXCEPT
                    !.answer = @ \o format_change(
                                  dict_get(acc.source_dict, destination_node.key),
                                  destination_node),
                    !.source_dict = dict_pop(@, destination_node.key)]
            ELSE [acc EXCEPT !.destination_dict = dict_set(@, destination_node)]
        after_source ==
            IF ~read_source THEN after_destination
            ELSE IF dict_has(after_destination.destination_dict, source_node.key)
            THEN [after_destination EXCEPT
                    !.answer = @ \o format_change(
                                  source_node,
                                  dict_get(after_destination.destination_dict,
                                           source_node.key)),
                    !.destination_dict = dict_pop(@, source_node.key)]
            ELSE [after_destination EXCEPT !.source_dict = dict_set(@, source_node)]
    IN  IF read_destination /\ read_source /\ index >= Len(destination.nodes)
        THEN [acc EXCEPT !.raised = "IndexError"]
        ELSE IF /\ destination_node # NoGridLeaf
                /\ source_node # NoGridLeaf
                /\ destination_node.key = source_node.key
        THEN [acc EXCEPT !.answer = @ \o format_change(source_node, destination_node)]
        ELSE after_source

RECURSIVE changeset_loop(_, _, _, _)
changeset_loop(self, destination, indexes, acc) ==
    IF indexes = <<>> \/ acc.raised # "" THEN acc
    ELSE changeset_loop(self, destination, Tail(indexes),
                        changeset_step(self, destination, Head(indexes), acc))

\* The statements of get_changeset after the comparison of the master
\* hashes.
grid_get_changeset_walk(self, destination) ==
    LET row_indexes == find_inconsistencies(self.row_tree, destination.row_tree,
                           MerkleNodePlaceInfo(0, 0), MerkleNodePlaceInfo(0, 0))
        column_indexes == find_inconsistencies(self.column_tree, destination.column_tree,
                              MerkleNodePlaceInfo(0, 0), MerkleNodePlaceInfo(0, 0))
        acc == changeset_loop(self, destination,
                   grid_indexes(self, row_indexes, column_indexes),
                   [answer |-> <<>>, source_dict |-> <<>>, destination_dict |-> <<>>,
                    raised |-> ""])
    IN  IF acc.raised # "" THEN Raised(acc.raised)
        ELSE Returned(acc.answer
                      \o [n \in 1..Len(acc.source_dict) |-> Delete(acc.source_dict[n])]
                      \o [n \in 1..Len(acc.destination_dict) |->
                             Create(acc.destination_dict[n])])

\* get_changeset.
grid_get_changeset(self, destination) ==
    IF self.master_hash = destination.master_hash
    THEN Returned(<<>>)
    ELSE grid_get_changeset_walk(self, destination)

----------------------------------------------------------------------------
\* swap: the first statement reads hash_function of both containers and
\* raises AttributeError when one of them never had it assigned; nothing
\* has been exchanged by then.
swap_raises(pair, self, other_tree) ==
    IF pair[self].hash_function = Unset \/ pair[other_tree].hash_function = Unset
    THEN "AttributeError"
    ELSE ""

\* swap: the fields of the two containers exchanged.
swap(pair, self, other_tree) ==
    IF swap_raises(pair, self, other_tree) # ""
    THEN pair
    ELSE [pair EXCEPT ![self] = pair[other_tree], ![other_tree] = pair[self]]

----------------------------------------------------------------------------
\* The state machine.  trees holds the two containers and grids the two
\* grids; call is the last
\* public call made: its name, the container it was made on, its arguments
\* (other: the second container of get_changeset), the exception it raised
\* and what it returned.

Call(op, self, other, key, value, raised, ret) ==
    [op |-> op, self |-> self, other |-> other, key |-> key, value |-> value,
     raised |-> raised, ret |-> ret]

\* The bulk inputs: keys and values of equal length up to MaxBulk, and the
\* orders in which the keys of a dictionary can iterate.
BulkKeys == UNION {[1..n -> Keys] : n \in 0..MaxBulk}

BulkValues(n) == [1..n -> Values]

DictKeys == {ks \in BulkKeys : \A i, j \in 1..Len(ks) : i # j => ks[i] # ks[j]}

\* Every build adds a level to self.levels; a container takes a call that
\* builds only while it holds fewer than MaxLevels levels.
CanBuild(self) == Len(self.levels) < MaxLevels

Init ==
    /\ trees = [n \in Names |-> EmptyTree]
    /\ grids = [n \in Names |-> EmptyGrid]
    /\ call = Call("init", "source", "source", 0, 0, "", <<>>)

Set(t, key, value) ==
    /\ CanBuild(trees[t])
    /\ trees' = [trees EXCEPT ![t] = set(trees[t], key, value)]
    /\ call' = Call("set", t, t, key, value, "", <<>>)
    /\ UNCHANGED grids

DeleteKey(t, key) ==
    /\ CanBuild(trees[t])
    /\ trees' = [trees EXCEPT ![t] = delete(trees[t], key)]
    /\ call' = Call("delete", t, t, key, 0, delete_raises(trees[t], key), <<>>)
    /\ UNCHANGED grids

AddIter(t, keys, values) ==
    /\ CanBuild(trees[t])
    /\ trees' = [trees EXCEPT ![t] = add_iter(trees[t], keys, values)]
    /\ call' = Call("add_iter", t, t, 0, 0, "", <<>>)
    /\ UNCHANGED grids

AddDict(t, dct_keys, dct_values) ==
    /\ CanBuild(trees[t])
    /\ trees' = [trees EXCEPT ![t] = add_dict(trees[t], dct_keys, dct_values)]
    /\ call' = Call("add_dict", t, t, 0, 0, "", <<>>)
    /\ UNCHANGED grids

Clear(t) ==
    /\ trees' = [trees EXCEPT ![t] = clear(trees[t])]
    /\ call' = Call("clear", t, t, 0, 0, "", <<>>)
    /\ UNCHANGED grids

GetChangeset(t, o) ==
    /\ trees' = trees
    /\ call' = Call("get_changeset", t, o, 0, 0, "", get_changeset(trees[t], trees[o]))
    /\ UNCHANGED grids

Next ==
    \/ \E t \in Names, key \in Keys, value \in Values : Set(t, key, value)
    \/ \E t \in Names, key \in Keys : DeleteKey(t, key)
    \/ \E t \in Names, keys \in BulkKeys :
           \E values \in BulkValues(Len(keys)) : AddIter(t, keys, values)
    \/ \E t \in Names, dct_keys \in DictKeys :
           \E dct_values \in BulkValues(Len(dct_keys)) : AddDict(t, dct_keys, dct_values)
    \/ \E t \in Names : Clear(t)
    \/ \E t \in Names, o \in Names : GetChangeset(t, o)

Spec == Init /\ [][Next]_vars

\* A bulk load made on a container that has no levels yet (as constructed,
\* or cleared).
LoadIter(t, keys, values) ==
    /\ trees[t].levels = <<>>
    /\ AddIter(t, keys, values)

LoadDict(t, dct_keys, dct_values) ==
    /\ trees[t].levels = <<>>
    /\ AddDict(t, dct_keys, dct_values)

\* The calls made on one container alone, the other left as constructed.
NextOne ==
    \/ \E key \in Keys, value \in Values : Set("source", key, value)
    \/ \E key \in Keys : DeleteKey("source", key)
    \/ \E keys \in BulkKeys :
           \E values \in BulkValues(Len(keys)) : LoadIter("source", keys, values)
    \/ \E dct_keys \in DictKeys :
           \E dct_values \in BulkValues(Len(dct_keys)) :
               LoadDict("source", dct_keys, dct_values)
    \/ Clear("source")

SpecOne == Init /\ [][NextOne]_vars

\* Two containers, each loaded once by add_iter with any keys of Keys in
\* ascending order, the first with any values and the second with one value
\* for all of its keys, and the diff of the first against the second.
AscendingKeys ==
    {keys \in UNION {[1..n -> Keys] : n \in 0..MaxKey} :
        \A i, j \in 1..Len(keys) : i < j => keys[i] < keys[j]}

NextWalk ==
    \/ \E keys \in AscendingKeys :
           \E values \in BulkValues(Len(keys)) : LoadIter("source", keys, values)
    \/ \E keys \in AscendingKeys, value \in Values :
           LoadIter("destination", keys, [i \in 1..Len(keys) |-> value])
    \/ GetChangeset("source", "destination")

SpecWalk == Init /\ [][NextWalk]_vars

\* Two containers, each built with a hash name or with a callable, loaded
\* while they have no levels, cleared, and swapped.
InitSwap ==
    /\ trees \in [Names -> {MerkleTree(hsh) : hsh \in HashArgs}]
    /\ grids = [n \in Names |-> EmptyGrid]
    /\ call = Call("init", "source", "source", 0, 0, "", <<>>)

Swap(t, o) ==
    /\ trees' = swap(trees, t, o)
    /\ call' = Call("swap", t, o, 0, 0, swap_raises(trees, t, o), <<>>)
    /\ UNCHANGED grids

NextSwap ==
    \/ \E t \in Names, keys \in BulkKeys :
           \E values \in BulkValues(Len(keys)) : LoadIter(t, keys, values)
    \/ \E t \in Names, o \in Names : Swap(t, o)
    \/ \E t \in Names : Clear(t)

SpecSwap == InitSwap /\ [][NextSwap]_vars

\* The two bulk loads of test_changeset.
ClassicSourceKeys == <<2, 7, 12, 15, 16, 17, 25>>

ClassicSourceValues == <<1, 2, 3, 4, 5, 6, 7>>

ClassicDestinationKeys == <<8, 15, 18, 21>>

ClassicDestinationValues == <<1, 2, 3, 4>>

\* Two containers loaded, while they have no levels, with the first pairs
\* of the two loads of test_changeset, compared and cleared.
NextClassic ==
    \/ \E n \in 0..Len(ClassicSourceKeys) :
           LoadIter("source", SubSeq(ClassicSourceKeys, 1, n),
                    SubSeq(ClassicSourceValues, 1, n))
    \/ \E n \in 0..Len(ClassicDestinationKeys) :
           LoadIter("destination", SubSeq(ClassicDestinationKeys, 1, n),
                    SubSeq(ClassicDestinationValues, 1, n))
    \/ \E t \in Names, o \in Names : GetChangeset(t, o)
    \/ \E t \in Names : Clear(t)

SpecClassic == Init /\ [][NextClassic]_vars

\* The calls made on one grid.  A call that inserts is taken while
\* grid_size, which no call but clear lowers, is below MaxGridSize; a call
\* that never returns is the last call of the program.
Returns == call.raised # "nontermination"

CanInsert(self, n) == self.grid_size + n <= MaxGridSize

GridCall(g, op, key, value, outcome) ==
    /\ grids' = [grids EXCEPT ![g] = outcome.self]
    /\ call' = Call(op, g, g, key, value, outcome.raised, <<>>)
    /\ UNCHANGED trees

GridSet(g, key, value) ==
    /\ Returns
    /\ CanInsert(grids[g], 1)
    /\ GridCall(g, "grid_set", key, value, grid_set(grids[g], key, value))

GridDelete(g, key) ==
    /\ Returns
    /\ GridCall(g, "grid_delete", key, 0, grid_delete(grids[g], key))

GridAddIter(g, keys, values) ==
    /\ Returns
    /\ CanInsert(grids[g], Len(keys))
    /\ GridCall(g, "grid_add_iter", 0, 0, grid_add_iter(grids[g], keys, values))

GridAddDict(g, dct_keys, dct_values) ==
    /\ Returns
    /\ CanInsert(grids[g], Len(dct_keys))
    /\ GridCall(g, "grid_add_dict", 0, 0, grid_add_dict(grids[g], dct_keys, dct_values))

GridClear(g) ==
    /\ Returns
    /\ GridCall(g, "grid_clear", 0, 0, Outcome(grid_clear(grids[g]), ""))

NextGrid ==
    \/ \E key \in Keys, value \in Values : GridSet("source", key, value)
    \/ \E key \in Keys : GridDelete("source", key)
    \/ \E keys \in BulkKeys :
           \E values \in BulkValues(Len(keys)) : GridAddIter("source", keys, values)
    \/ \E dct_keys \in DictKeys :
           \E dct_values \in BulkValues(Len(dct_keys)) :
               GridAddDict("source", dct_keys, dct_values)
    \/ GridClear("source")

SpecGrid == Init /\ [][NextGrid]_vars

\* Two grids, each mutated by public calls, and the diff of one against the
\* other.
GridGetChangeset(g, h) ==
    /\ Returns
    /\ LET outcome == grid_get_changeset(grids[g], grids[h])
       IN  call' = Call("grid_get_changeset", g, h, 0, 0, outcome.raised, outcome.value)
    /\ UNCHANGED <<trees, grids>>

\* add_dict on a grid as created.
GridLoadDict(g, dct_keys, dct_values) ==
    /\ grids[g] = EmptyGrid
    /\ GridAddDict(g, dct_keys, dct_values)

NextGridDiff ==
    \/ \E key \in Keys, value \in Values : GridSet("source", key, value)
    \/ \E g \in Names, dct_keys \in DictKeys :
           \E dct_values \in BulkValues(Len(dct_keys)) :
               GridLoadDict(g, dct_keys, dct_values)
    \/ \E g \in Names : GridClear(g)
    \/ \E g, h \in Names : GridGetChangeset(g, h)

SpecGridDiff == Init /\ [][NextGridDiff]_vars

----------------------------------------------------------------------------
\* Properties of the containers: vocabulary of the formulas below.

\* The key->value map a container holds: 0 where the key is absent.
KeyValueMap(self) ==
    [k \in Keys |->
        IF \E i \in 1..Len(self.leaves) : self.leaves[i].key = k
        THEN self.leaves[CHOOSE i \in 1..Len(self.leaves) : self.leaves[i].key = k].value
        ELSE 0]

\* A change record applied to a key->value map: Create inserts, Delete
\* removes, Update overwrites.
ApplyRecord(m, r) ==
    IF r.Operation_type = "Create" THEN [m EXCEPT ![r.Key] = r.Value]
    ELSE IF r.Operation_type = "Delete" THEN [m EXCEPT ![r.Key] = 0]
    ELSE [m EXCEPT ![r.Key] = r.Destination_value]

RECURSIVE ApplyChangeset(_, _)
ApplyChangeset(m, changeset) ==
    IF changeset = <<>> THEN m
    ELSE ApplyChangeset(ApplyRecord(m, Head(changeset)), Tail(changeset))

\* A change record that states a difference there is between two maps.
Genuine(a, b, r) ==
    IF r.Operation_type = "Create" THEN a[r.Key] = 0 /\ b[r.Key] = r.Value
    ELSE IF r.Operation_type = "Delete" THEN a[r.Key] = r.Value /\ b[r.Key] = 0
    ELSE /\ a[r.Key] = r.Source_value
         /\ b[r.Key] = r.Destination_value
         /\ r.Source_value # r.Destination_value

\* levels is the tree over the current leaves: the last level has one node
\* per leaf, each level above is the pair-fold of the level below it, and
\* the top level alone holds a single node, whose hash root_hash returns.
HashConsistent(self) ==
    LET levels == self.levels
    IN  /\ Len(levels) >= 1
        /\ levels[Len(levels)] = first_level(self.leaves)
        /\ \A i \in 1..(Len(levels) - 1) : levels[i] = new_level(levels[i + 1])
        /\ \A i \in 1..Len(levels) : Len(levels[i]) = 1 <=> i = 1
        /\ root_hash(self) = Returned(levels[1][1].hash)

\* A container that holds leaves and whose levels are the tree over them.
WellBuilt(self) == self.leaves_count > 0 /\ HashConsistent(self)

Mutators == {"set", "delete", "add_iter", "add_dict", "clear"}

\* The last call was A.get_changeset(B) on two well built containers.
DiffCalled ==
    /\ call.op = "get_changeset"
    /\ call.self # call.other
    /\ WellBuilt(trees[call.self])
    /\ WellBuilt(trees[call.other])

\* Two records of a change-set never carry the same key.
DistinctKeys(changeset) ==
    \A i, j \in 1..Len(changeset) : i # j => changeset[i].Key # changeset[j].Key

----------------------------------------------------------------------------
\* C1 -- MBT diff completeness: the records of A.get_changeset(B), applied
\* to the key->value map of A, give the key->value map of B.  Stated for two
\* containers whose levels are the tree over their leaves.
C1_DiffComplete ==
    DiffCalled =>
        ApplyChangeset(KeyValueMap(trees[call.self]), call.ret)
            = KeyValueMap(trees[call.other])

\* C2 -- MBT diff soundness: every record of A.get_changeset(B) is a genuine
\* difference between A and B (Create: absent from A, in B with that value;
\* Delete: in A with that value, absent from B; Update: in both, with the
\* two values reported, which differ).
C2_DiffSound ==
    DiffCalled =>
        \A i \in 1..Len(call.ret) :
            Genuine(KeyValueMap(trees[call.self]), KeyValueMap(trees[call.other]),
                    call.ret[i])

\* C3 -- MBT diff minimality: no two records of A.get_changeset(B) carry the
\* same key.
C3_DiffMinimal == DiffCalled => DistinctKeys(call.ret)

\* C4 -- MBT hash consistency after mutation: once a public mutation has
\* returned and the container holds leaves, levels is the tree rebuilt from
\* scratch over the current leaves and root_hash is the hash of its one top
\* node.
C4_HashConsistentAfterMutation ==
    (call.op \in Mutators /\ call.raised = "" /\ trees[call.self].leaves_count > 0)
        => HashConsistent(trees[call.self])

\* C5 -- Root hash is a function of the map: two containers that hold the
\* same non-empty key->value map have equal root hashes, whatever calls
\* produced them.
C5_RootHashFunctionOfMap ==
    \A a, b \in Names :
        (/\ trees[a].leaves_count > 0
         /\ KeyValueMap(trees[a]) = KeyValueMap(trees[b]))
            => root_hash(trees[a]) = root_hash(trees[b])

\* C6 -- Root hash discriminates: with a collision-free hash, two containers
\* whose key->value maps differ have unequal root hashes.  Stated for two
\* containers whose levels are the tree over their leaves.
C6_RootHashDiscriminates ==
    \A a, b \in Names :
        (/\ WellBuilt(trees[a])
         /\ WellBuilt(trees[b])
         /\ KeyValueMap(trees[a]) # KeyValueMap(trees[b]))
            => root_hash(trees[a]) # root_hash(trees[b])

\* C7 -- Diff of equal is empty, and only then: A.get_changeset(A) is empty
\* for every container A, and A.get_changeset(B) is empty exactly when the
\* root hashes of A and B are equal (the second part stated for two
\* containers whose levels are the tree over their leaves).
C7_DiffEmptyIffEqualRoots ==
    /\ (call.op = "get_changeset" /\ call.self = call.other) => call.ret = <<>>
    /\ DiffCalled =>
           (call.ret = <<>>
               <=> root_hash(trees[call.self]) = root_hash(trees[call.other]))

\* C8 -- Map semantics of set/get.  The container starts with length 0;
\* in every state, set(key, value) makes get(key) return value, leaves what
\* get returns for every other stored key as it was, and adds one to the
\* length exactly when key was not stored; and the length is the number of
\* keys get finds.  So after any sequence of set calls get(k) returns the
\* value most recently set for k and len is the number of distinct keys set.
C8_SetGetSemantics ==
    \A t \in Names :
        /\ call.op = "init" => size(trees[t]) = 0
        /\ size(trees[t]) = Cardinality({k \in Keys : get(trees[t], k).raised = ""})
        /\ \A key \in Keys, value \in Values :
               LET before == trees[t]
                   after == set(before, key, value)
               IN  /\ get(after, key) = Returned(<<value>>)
                   /\ \A k \in Keys \ {key} :
                          get(before, k).raised = "" => get(after, k) = get(before, k)
                   /\ size(after) =
                          size(before) + (IF get(before, key).raised = "" THEN 0 ELSE 1)

\* A state two set calls with different keys have led to: the container
\* holds two keys and get returns what the last call stored.
C8_Witness ==
    /\ call.op = "set"
    /\ size(trees[call.self]) = 2
    /\ Len(trees[call.self].levels) = 2
    /\ get(trees[call.self], call.key) = Returned(<<call.value>>)

\* C9 -- Idempotent set: in every state, set(key, value) followed at once by
\* set(key, value) leaves the length, the leaves and the root hash as they
\* were after the first set.
C9_IdempotentSet ==
    \A t \in Names, key \in Keys, value \in Values :
        LET first == set(trees[t], key, value)
            second == set(first, key, value)
        IN  /\ size(second) = size(first)
            /\ second.leaves = first.leaves
            /\ root_hash(second) = root_hash(first)

\* A state reached by set(key, value) on a container that held key with
\* value already: the level the call added equals the one before it.
C9_Witness ==
    /\ call.op = "set"
    /\ Len(trees[call.self].levels) = 2
    /\ trees[call.self].levels[1] = trees[call.self].levels[2]
    /\ trees[call.self].leaves = <<MerkleTreeLeaf(call.key, call.value)>>
    /\ root_hash(trees[call.self]) = Returned(get_hash(call.value))

\* C10 -- Delete inverts set: set(k, v) on an empty container (one without
\* levels: the set leaves it with a single level) followed by delete(k)
\* yields length 0 and the root hash of an empty container.
C10_DeleteInvertsSet ==
    [][(/\ call.op = "set"
        /\ Len(trees[call.self].levels) = 1
        /\ call'.op = "delete"
        /\ call'.self = call.self
        /\ call'.key = call.key)
          => /\ size(trees'[call.self]) = 0
             /\ root_hash(trees'[call.self]) = root_hash(EmptyTree)]_vars

----------------------------------------------------------------------------
\* The keys a container holds, and the pair with the i-th smallest of them
\* (i counted from 0).
StoredKeys(self) == {k \in Keys : KeyValueMap(self)[k] # 0}

OrderedPair(self, i) ==
    LET k == CHOOSE k \in StoredKeys(self) :
                 Cardinality({j \in StoredKeys(self) : j < k}) = i
    IN  [key |-> k, value |-> KeyValueMap(self)[k]]

StrictlyAscending(leaves) ==
    \A i \in 1..(Len(leaves) - 1) : leaves[i].key < leaves[i + 1].key

\* C11 -- Order and uniqueness: in every state the leaf vector is strictly
\* ascending by key, iteration yields one pair per stored key in ascending
\* key order, and get_by_order(i) returns the pair with the i-th smallest
\* key; and _setitem, which set applies once and add_iter / add_dict apply
\* pair by pair, and delete keep the leaf vector strictly ascending.
C11_OrderAndUniqueness ==
    \A t \in Names :
        LET self == trees[t]
        IN  /\ StrictlyAscending(self.leaves)
            /\ Len(iter(self)) = Cardinality(StoredKeys(self))
            /\ \A i \in 0..(Len(self.leaves) - 1) :
                   /\ iter(self)[i + 1] = OrderedPair(self, i)
                   /\ get_by_order(self, i) = Returned(OrderedPair(self, i))
            /\ \A key \in Keys :
                   /\ StrictlyAscending(delete(self, key).leaves)
                   /\ \A value \in Values :
                          StrictlyAscending(setitem(self, key, value, FALSE).leaves)

\* A state a set has led to by inserting its key before a leaf that was
\* there: the key set last is the smallest of two.
C11_Witness ==
    /\ call.op = "set"
    /\ Len(trees[call.self].leaves) = 2
    /\ trees[call.self].leaves[1].key = call.key
    /\ get_by_order(trees[call.self], 1).value.key > call.key

\* C12 -- Empty root hash: reading root_hash of a newly created container,
\* and of a container after clear(), succeeds and gives the empty byte
\* string.
C12_EmptyRootHash ==
    \A t \in Names :
        (call.op = "init" \/ (call.op = "clear" /\ call.self = t))
            => root_hash(trees[t]) = Returned(<<>>)

\* C13 -- Equality by root hash: for any two containers, empty ones
\* included, A == B returns true exactly when their root hashes are equal
\* and A != B returns its negation; comparing a container with an object of
\* another type (a Merkle Hash Grid) returns false and does not raise.
C13_EqualityByRootHash ==
    \A a, b \in Names :
        /\ eq(trees[a], trees[b]).raised = ""
        /\ eq(trees[a], trees[b]).value = (root_hash(trees[a]) = root_hash(trees[b]))
        /\ ne(trees[a], trees[b]).raised = ""
        /\ ne(trees[a], trees[b]).value = (root_hash(trees[a]) # root_hash(trees[b]))
        /\ eq(trees[a], EmptyGrid) = Returned(FALSE)
        /\ ne(trees[a], EmptyGrid) = Returned(TRUE)

\* C14 -- KeyNotFound: in every state, the empty container included, get(k)
\* and delete(k) for a key k the container does not hold raise the
\* key-not-found error, Exception("No such element"), and the failed delete
\* leaves leaves, leaves_count and levels as they were.
C14_KeyNotFound ==
    \A t \in Names, k \in Keys :
        KeyValueMap(trees[t])[k] = 0 =>
            /\ get(trees[t], k) = Raised("Exception")
            /\ delete_raises(trees[t], k) = "Exception"
            /\ delete(trees[t], k) = trees[t]

\* The orders in which the keys of a set can be taken one by one.
Orders(S) ==
    {order \in [1..Cardinality(S) -> S] :
        \A i, j \in 1..Cardinality(S) : i # j => order[i] # order[j]}

\* delete called with each key of a sequence in turn.
RECURSIVE delete_each(_, _)
delete_each(self, keys) ==
    IF keys = <<>> THEN self
    ELSE delete_each(delete(self, Head(keys)), Tail(keys))

\* C15 -- Delete of a present key: in every state contains answers (true
\* exactly for the keys held), on the empty container as well; delete(k) for
\* a key k held raises nothing, and afterwards contains(k) is false, the
\* length is one less and every other key is contained as before with its
\* value unchanged; deleting all the keys held, in any order, ends with
\* length 0 and no leaves.
C15_DeletePresentKey ==
    \A t \in Names :
        LET self == trees[t]
        IN  /\ \A k \in Keys : contains(self, k) <=> KeyValueMap(self)[k] # 0
            /\ \A k \in StoredKeys(self) :
                   LET after == delete(self, k)
                   IN  /\ delete_raises(self, k) = ""
                       /\ ~contains(after, k)
                       /\ size(after) = size(self) - 1
                       /\ \A j \in Keys \ {k} :
                              /\ contains(after, j) <=> contains(self, j)
                              /\ KeyValueMap(after)[j] = KeyValueMap(self)[j]
            /\ \A order \in Orders(StoredKeys(self)) :
                   /\ size(delete_each(self, order)) = 0
                   /\ delete_each(self, order).leaves = <<>>

\* A state delete has led to by removing the one key the container held:
\* the call raised nothing, the key is gone and the length is 0.
C15_Witness ==
    /\ call.op = "delete"
    /\ call.raised = ""
    /\ Len(trees[call.self].levels) = 2
    /\ ~contains(trees[call.self], call.key)
    /\ size(trees[call.self]) = 0

\* C16 -- Swap: A.swap(B) raises nothing and exchanges the whole state of
\* the two containers (leaves, levels, leaves_count, hash function), so each
\* answers every get / len / root_hash as the other did before; and a second
\* A.swap(B) restores both.
C16_Swap ==
    [][call'.op = "swap" =>
          /\ call'.raised = ""
          /\ trees'[call'.self] = trees[call'.other]
          /\ trees'[call'.other] = trees[call'.self]
          /\ swap(trees', call'.self, call'.other) = trees]_vars

\* A sequence taken in another order: element i of the result is element
\* order[i] of the sequence.
Permuted(seq, order) == [i \in 1..Len(seq) |-> seq[order[i]]]

\* C17 -- Order independence of bulk load: for any list of pairs with
\* distinct keys, a fresh container loaded by add_iter with the pairs and a
\* fresh container loaded by add_iter, or by add_dict, with the pairs in
\* any other order have the same leaves and the same root hash, and compare
\* equal.
C17_BulkLoadOrderIndependent ==
    \A keys \in DictKeys :
        \A values \in BulkValues(Len(keys)), order \in Orders(1..Len(keys)) :
            (/\ trees["source"] = add_iter(EmptyTree, keys, values)
             /\ \/ trees["destination"] =
                       add_iter(EmptyTree, Permuted(keys, order), Permuted(values, order))
                \/ trees["destination"] =
                       add_dict(EmptyTree, Permuted(keys, order), Permuted(values, order)))
                => /\ trees["source"].leaves = trees["destination"].leaves
                   /\ root_hash(trees["source"]) = root_hash(trees["destination"])
                   /\ eq(trees["source"], trees["destination"]).raised = ""
                   /\ eq(trees["source"], trees["destination"]).value

\* The last call was A.get_changeset(B), A loaded by
\* add_iter([2,7,12,15,16,17,25], [1,2,3,4,5,6,7]) and B by
\* add_iter([8,15,18,21], [1,2,3,4]) on fresh containers.
ClassicDiffCalled ==
    /\ call.op = "get_changeset"
    /\ call.self = "source"
    /\ call.other = "destination"
    /\ trees["source"] = add_iter(EmptyTree, ClassicSourceKeys, ClassicSourceValues)
    /\ trees["destination"] =
           add_iter(EmptyTree, ClassicDestinationKeys, ClassicDestinationValues)

\* The ten records of the classic diff.
ClassicChangeset ==
    {Delete(MerkleTreeLeaf(2, 1)), Delete(MerkleTreeLeaf(7, 2)),
     Delete(MerkleTreeLeaf(12, 3)),
     [Operation_type |-> "Update", Key |-> 15, Source_value |-> 4, Destination_value |-> 2],
     Delete(MerkleTreeLeaf(16, 5)), Delete(MerkleTreeLeaf(17, 6)),
     Delete(MerkleTreeLeaf(25, 7)), Create(MerkleTreeLeaf(8, 1)),
     Create(MerkleTreeLeaf(18, 3)), Create(MerkleTreeLeaf(21, 4))}

\* C18 -- Classic diff scenario: with A loaded by
\* add_iter([2,7,12,15,16,17,25], [1,2,3,4,5,6,7]) and B by
\* add_iter([8,15,18,21], [1,2,3,4]) on fresh containers,
\* A.get_changeset(B) holds, each once, the ten records Delete(2,1),
\* Delete(7,2), Delete(12,3), Update(15,4,2), Delete(16,5), Delete(17,6),
\* Delete(25,7), Create(8,1), Create(18,3), Create(21,4), and nothing else.
C18_ClassicDiff ==
    ClassicDiffCalled =>
        /\ Len(call.ret) = Cardinality(ClassicChangeset)
        /\ {call.ret[i] : i \in 1..Len(call.ret)} = ClassicChangeset

\* The state the classic diff has led to: both loads made in full and the
\* change-set returned.
C18_Witness ==
    /\ ClassicDiffCalled
    /\ Len(trees["source"].leaves) = Len(ClassicSourceKeys)
    /\ Len(trees["destination"].leaves) = Len(ClassicDestinationKeys)
    /\ call.ret # <<>>

\* The container as __init__ left it, for the hash function self was built
\* with.
AsCreated(self) == [EmptyTree EXCEPT !.hash_function = self.hash_function]

\* C19 -- Clear resets to the created state: clear() on a container in any
\* state gives length 0, no leaves and no levels, that is the state of a
\* newly created container, so every call that follows does what it does on
\* a new container (set and add_iter give the same container, with the same
\* root hash); and the state a clear() has left is that state.
C19_ClearResets ==
    \A t \in Names :
        /\ LET cleared == clear(trees[t])
           IN  /\ size(cleared) = 0
               /\ cleared.leaves = <<>>
               /\ cleared.levels = <<>>
               /\ cleared = AsCreated(trees[t])
        /\ (call.op = "clear" /\ call.self = t) =>
               /\ trees[t] = AsCreated(trees[t])
               /\ \A key \in Keys, value \in Values :
                      set(trees[t], key, value) = set(AsCreated(trees[t]), key, value)
               /\ \A keys \in BulkKeys :
                      \A values \in BulkValues(Len(keys)) :
                          /\ add_iter(trees[t], keys, values)
                                 = add_iter(AsCreated(trees[t]), keys, values)
                          /\ root_hash(add_iter(trees[t], keys, values))
                                 = root_hash(add_iter(AsCreated(trees[t]), keys, values))

\* A state clear() has led to: the container is as created.
C19_Witness ==
    /\ call.op = "clear"
    /\ call.raised = ""
    /\ trees[call.self] = EmptyTree
    /\ size(trees[call.self]) = 0

\* The public mutations of a grid.
GridMutators == {"grid_set", "grid_delete", "grid_add_iter", "grid_add_dict"}

\* The root of a tree folded from one level down to a single node.
FoldedRoot(level) == row_tree_loop(<<level>>)[1][1]

\* H(hash of the row tree's root || hash of the column tree's root), the
\* two trees computed over the current nodes of a grid of side grid_side.
MasterHashOverNodes(self) ==
    LET grid == [EmptyGrid EXCEPT !.nodes = self.nodes, !.grid_size = Len(self.nodes),
                                  !.grid_side = ceil_sqrt(Len(self.nodes))]
        rows == grid_build_row_tree(grid, range(0, grid.grid_size, grid.grid_side))
        columns == grid_build_column_tree(grid, range(0, grid.grid_side, 1)).self
    IN  grid_get_hash_bytes(<<FoldedRoot(rows.row_tree[1]).hsh,
                              FoldedRoot(columns.column_tree[1]).hsh>>)

\* C20 -- MHG dimension and master hash: a public mutation of a grid (set,
\* delete, add_iter, add_dict) returns normally, and once it has returned
\* grid_size is the number of leaves, grid_side is ceil(sqrt(grid_size)) and
\* master_hash is H(hash of row_tree[0][0] || hash of column_tree[0][0])
\* computed over the current leaves.
C20_GridDimensionAndMasterHash ==
    \A g \in Names :
        (call.op \in GridMutators /\ call.self = g) =>
            /\ call.raised \in {"", "Exception"}
            /\ call.raised = "" =>
                   /\ grids[g].grid_size = Len(grids[g].nodes)
                   /\ grids[g].grid_side = ceil_sqrt(grids[g].grid_size)
                   /\ grids[g].nodes # <<>> =>
                          grids[g].master_hash = MasterHashOverNodes(grids[g])

\* C21 -- MHG mutations terminate: in every state of a grid that public
\* calls reach, states left by a call that raised included, set, add_iter,
\* add_dict and delete run to completion: the fold loops of the row tree and
\* of the column tree stop.
C21_GridMutationsTerminate ==
    call.op \in GridMutators => call.raised # "nontermination"

\* The MBT container that holds the key->value map of a grid.
GridKeys(self) == [n \in 1..Len(self.nodes) |-> self.nodes[n].key]

GridValues(self) == [n \in 1..Len(self.nodes) |-> self.nodes[n].value]

TreeHolding(self) == add_dict(EmptyTree, GridKeys(self), GridValues(self))

\* Two change-sets with the same records, each as many times.
SameRecords(a, b) ==
    /\ Len(a) = Len(b)
    /\ \A n \in 1..Len(a) :
           Cardinality({i \in 1..Len(a) : a[i] = a[n]})
               = Cardinality({i \in 1..Len(b) : b[i] = a[n]})

\* A change-set with one record of the given type per leaf of the grid and
\* no other record.
OneRecordPerKey(changeset, self, type) ==
    /\ Len(changeset) = Len(self.nodes)
    /\ \A n \in 1..Len(self.nodes) :
           \E i \in 1..Len(changeset) :
               changeset[i] = [Operation_type |-> type, Key |-> self.nodes[n].key,
                               Value |-> self.nodes[n].value]

\* C22 -- Diff against an empty container, MBT/MHG parity: for a key->value
\* map M, the change-set from an empty container to a container holding M
\* has exactly one Create per key of M (one Delete per key in the opposite
\* direction) and nothing else, and the change-set of the grids is the
\* change-set of the trees as a multiset.
C22_DiffAgainstEmpty ==
    \A g, h \in Names :
        (call.op = "grid_get_changeset" /\ call.self = g /\ call.other = h /\ g # h) =>
            /\ grids[g] = EmptyGrid =>
                   LET changeset == get_changeset(EmptyTree, TreeHolding(grids[h]))
                   IN  /\ OneRecordPerKey(changeset, grids[h], "Create")
                       /\ call.raised = ""
                       /\ SameRecords(call.ret, changeset)
            /\ grids[h] = EmptyGrid =>
                   LET changeset == get_changeset(TreeHolding(grids[g]), EmptyTree)
                   IN  /\ OneRecordPerKey(changeset, grids[g], "Delete")
                       /\ call.raised = ""
                       /\ SameRecords(call.ret, changeset)

\* The grid indexes r * side + c for the rows r of the row inconsistency set
\* and the columns c of the column inconsistency set.
Inspected(self, destination) ==
    LET row_indexes == find_inconsistencies(self.row_tree, destination.row_tree,
                           MerkleNodePlaceInfo(0, 0), MerkleNodePlaceInfo(0, 0))
        column_indexes == find_inconsistencies(self.column_tree, destination.column_tree,
                              MerkleNodePlaceInfo(0, 0), MerkleNodePlaceInfo(0, 0))
        indexes == grid_indexes(self, row_indexes, column_indexes)
    IN  {indexes[n] : n \in 1..Len(indexes)}

\* C23 -- MHG diff classification: for every inspected grid index at which
\* the source and the destination hold a leaf with the same key,
\* get_changeset emits an Update record with the source and the destination
\* value when the hashes of the two leaves differ, and no record of that key
\* when they are equal.
C23_UpdateClassification ==
    \A g, h \in Names :
        (call.op = "grid_get_changeset" /\ call.self = g /\ call.other = h) =>
            \A index \in Inspected(grids[g], grids[h]) :
                (/\ index < Len(grids[g].nodes)
                 /\ index < Len(grids[h].nodes)
                 /\ grids[g].nodes[index + 1].key = grids[h].nodes[index + 1].key) =>
                    LET source_node == grids[g].nodes[index + 1]
                        destination_node == grids[h].nodes[index + 1]
                    IN  /\ call.raised = ""
                        /\ IF source_node.hsh # destination_node.hsh
                           THEN \E i \in 1..Len(call.ret) :
                                    call.ret[i] = Update(source_node, destination_node)
                           ELSE \A i \in 1..Len(call.ret) :
                                    call.ret[i].Key # source_node.key

\* The calls of _get_changeset that A.get_changeset(B) makes.
Walk(self, destination) ==
    walk_trace(self, destination, MerkleNodePlaceInfo(0, 0), MerkleNodePlaceInfo(0, 0), 0)

\* A call of _get_changeset that compares two nodes with different hashes.
ComparesNodes(self, destination, c) ==
    /\ c.source_info # None
    /\ c.destination_info # None
    /\ get_node_from_info(self, c.source_info) # NoneNode
    /\ get_node_from_info(destination, c.destination_info) # NoneNode
    /\ get_node_from_info(self, c.source_info).hash
           # get_node_from_info(destination, c.destination_info).hash

\* The leaf a call compares on a side: the leaf at the place when the place
\* is on the last level.
LeafAt(self, info) ==
    IF is_last(self, info) THEN get_leaf_from_info(self, info) ELSE NoneLeaf

\* A call that reaches the statements after the equal-avg rule: two
\* non-leaf nodes with different hashes, none of the size-asymmetric pruning
\* rules applies and the two avg differ.
ReachesFallback(self, destination, c) ==
    LET source_node == get_node_from_info(self, c.source_info)
        destination_node == get_node_from_info(destination, c.destination_info)
    IN  /\ ComparesNodes(self, destination, c)
        /\ LeafAt(self, c.source_info) = NoneLeaf
        /\ LeafAt(destination, c.destination_info) = NoneLeaf
        /\ source_node.size < destination_node.size =>
               /\ ~(destination_node.max_left_child < source_node.min_key)
               /\ ~(destination_node.max_left_child >= source_node.max_key)
        /\ source_node.size > destination_node.size =>
               /\ ~(source_node.max_left_child < destination_node.min_key)
               /\ ~(source_node.max_left_child >= destination_node.max_key)
        /\ source_node.avg # destination_node.avg

\* C24 -- MBT differ fallback: when two non-leaf nodes with different hashes
\* are compared and neither a size-asymmetric pruning rule nor the equal-avg
\* rule applies, the walk descends into the children of the node with the
\* larger size and pairs each of them against the whole node of the smaller
\* side.
C24_FallbackDescendsLarger ==
    call.op = "get_changeset" =>
        LET self == trees[call.self]
            destination == trees[call.other]
        IN  \A c \in Walk(self, destination) :
                ReachesFallback(self, destination, c) =>
                    LET source_size == get_node_from_info(self, c.source_info).size
                        destination_size ==
                            get_node_from_info(destination, c.destination_info).size
                        calls == walk_calls(self, destination,
                                            c.source_info, c.destination_info)
                    IN  /\ source_size > destination_size =>
                               calls = <<<<left_children(c.source_info), c.destination_info>>,
                                         <<right_children(c.source_info), c.destination_info>>>>
                        /\ source_size < destination_size =>
                               calls = <<<<c.source_info, left_children(c.destination_info)>>,
                                         <<c.source_info, right_children(c.destination_info)>>>>

\* The records get_changeset(self, destination) returns hold every record of
\* a list.
Reported(changeset, records) ==
    \A i \in 1..Len(records) : \E j \in 1..Len(changeset) : changeset[j] = records[i]

\* The child of a place other than the given one.
OtherChild(info, child) ==
    IF child = left_children(info) THEN right_children(info) ELSE left_children(info)

\* C25 -- MBT differ, leaf against subtree: when a leaf on one side is
\* compared with a non-leaf node on the other side and routed by
\* max_left_child into one child of that node, the leaves of the child that
\* was not routed into are reported as well, source leaves as Delete and
\* destination leaves as Create: no leaf of the subtree is dropped from the
\* change-set.
C25_LeafAgainstSubtree ==
    call.op = "get_changeset" =>
        LET self == trees[call.self]
            destination == trees[call.other]
        IN  \A c \in Walk(self, destination) :
                LET calls == walk_calls(self, destination, c.source_info, c.destination_info)
                IN  /\ (/\ ComparesNodes(self, destination, c)
                        /\ LeafAt(self, c.source_info) # NoneLeaf
                        /\ LeafAt(destination, c.destination_info) = NoneLeaf) =>
                           Reported(call.ret,
                                    get_changeset_walk(self, destination, None,
                                        OtherChild(c.destination_info, calls[1][2])))
                    /\ (/\ ComparesNodes(self, destination, c)
                        /\ LeafAt(self, c.source_info) = NoneLeaf
                        /\ LeafAt(destination, c.destination_info) # NoneLeaf) =>
                           Reported(call.ret,
                                    get_changeset_walk(self, destination,
                                        OtherChild(c.source_info, calls[1][1]), None))

\* The number of leaves with a key smaller than the given one.
SmallerKeys(self, key) ==
    Cardinality({i \in 1..Len(self.leaves) : self.leaves[i].key < key})

\* C26 -- find_position: for every strictly ascending leaf vector, here the
\* one add_iter has left, and every key, _find_position returns the index at
\* which the key resides when it is present, and otherwise the insertion
\* index that keeps the vector ascending, the number of leaves with a smaller
\* key; on an empty vector it returns 0.
C26_FindPositionInsertion ==
    \A t \in Names, key \in Keys :
        LET self == trees[t]
        IN  (call.op = "add_iter" /\ call.self = t /\ StrictlyAscending(self.leaves)) =>
                /\ find_position(self, key) = SmallerKeys(self, key)
                /\ self.leaves = <<>> => find_position(self, key) = 0

\* C26, as the code has it -- for every strictly ascending leaf vector, here
\* the one add_iter has left, and every key, _find_position returns the index
\* at which the key resides when it is present; otherwise it returns the
\* index of the last leaf with a smaller key, one less than the insertion
\* index, and 0 when no leaf has a smaller key; on an empty vector it
\* returns 0.  _setitem makes up for the difference: it stores a new key at
\* the insertion index.
C26_FindPositionBelowInsertion ==
    \A t \in Names, key \in Keys :
        LET self == trees[t]
            index == find_position(self, key)
        IN  (call.op = "add_iter" /\ call.self = t /\ StrictlyAscending(self.leaves)) =>
                /\ key \in StoredKeys(self) =>
                       /\ index = SmallerKeys(self, key)
                       /\ self.leaves[index + 1].key = key
                /\ key \notin StoredKeys(self) =>
                       index = IF SmallerKeys(self, key) = 0
                               THEN 0 ELSE SmallerKeys(self, key) - 1
                /\ self.leaves = <<>> => index = 0
                /\ \A value \in Values :
                       setitem(self, key, value, FALSE).leaves[SmallerKeys(self, key) + 1]
                           = MerkleTreeLeaf(key, value)

\* add_iter has searched a vector of two leaves or more, and a key that is
\* not held has leaves with a smaller key before it.
C26_Witness ==
    /\ call.op = "add_iter"
    /\ Len(trees[call.self].leaves) >= 2
    /\ \E key \in Keys :
           /\ key \notin StoredKeys(trees[call.self])
           /\ SmallerKeys(trees[call.self], key) >= 1
           /\ find_position(trees[call.self], key) = SmallerKeys(trees[call.self], key) - 1

\* The fields of a node above the leaf level agree with its children in the
\* level below: two children, or one child that was promoted.
AgreesWithChildren(node, below, j) ==
    IF 2 * j <= Len(below)
    THEN LET left == below[2 * j - 1]
             right == below[2 * j]
         IN  /\ node.size = left.size + right.size
             /\ node.min_key = left.min_key
             /\ node.max_key = right.max_key
             /\ node.max_left_child = left.max_key
             /\ node.avg = (left.avg + right.avg + 1) \div 2
    ELSE /\ 2 * j - 1 <= Len(below)
         /\ LET child == below[2 * j - 1]
            IN  /\ node.size = child.size
                /\ node.min_key = child.min_key
                /\ node.max_key = child.max_key
                /\ node.max_left_child = child.max_left_child
                /\ node.avg = child.avg

MetadataConsistent(self) ==
    /\ \A i \in 1..(Len(self.levels) - 1) :
           \A j \in 1..Len(self.levels[i]) :
               AgreesWithChildren(self.levels[i][j], self.levels[i + 1], j)
    /\ Len(self.levels) >= 1
    /\ Len(self.levels[1]) >= 1
    /\ self.levels[1][1].size = size(self)
    /\ self.levels[1][1].min_key = self.leaves[1].key
    /\ self.levels[1][1].max_key = self.leaves[Len(self.leaves)].key

\* C27 -- MBT metadata consistency: after any sequence of public mutations
\* that leaves the container non-empty, every node above the leaf level has
\* size = the sum of its children's sizes, min_key = the left child's
\* min_key, max_key = the right child's max_key, max_left_child = the left
\* child's max_key and avg = (left.avg + right.avg + 1) div 2, a promoted
\* node copying its child; the root's size equals len and the root's
\* min_key and max_key are the smallest and the largest key held.
C27_MetadataConsistent ==
    \A t \in Names :
        (/\ call.op \in Mutators
         /\ call.self = t
         /\ call.raised = ""
         /\ trees[t].leaves # <<>>) =>
            MetadataConsistent(trees[t])

=============================================================================
